---- MODULE Spec2Model ----
(***************************************************************************)
(* Model of planner/core/rule_generate_column_substitute.go: the logical   *)
(* optimization rule that replaces expressions by indexed virtual          *)
(* generated columns.  A behaviour applies optimize to one bounded input   *)
(* plan, possibly several times.  Go's randomised map iteration is         *)
(* modelled by computing, for every `range exprToColumn` loop, the set of  *)
(* results over all iteration orders.                                      *)
(***************************************************************************)
EXTENDS Integers, Sequences, FiniteSets, TLC

VARIABLES lp, input, exprToColumn, pc, nrun, results, err

vars == <<lp, input, exprToColumn, pc, nrun, results, err>>

\* ------------------------------------------------------------ bounds
\* number of times optimize is applied to the same plan
MaxRuns == 2
\* longest IN list (operands after the first) of an input condition
MaxInList == 2

\* ------------------------------------------------------- expressions
\* An expression is a record [k, name, tp, args, hash]:
\*   k = "col"   : *expression.Column, name is its UniqueID
\*   k = "const" : *expression.Constant, name is its value
\*   k = "func"  : *expression.ScalarFunction, name is FuncName.L,
\*                 hash is the cached hashcode (<<>> when not yet computed)
\*   k = "nil"   : no expression (VirtualExpr of an ordinary column)
Column(name, tp) == [k |-> "col", name |-> name, tp |-> tp, args |-> <<>>, hash |-> <<>>]
Constant(name, tp) == [k |-> "const", name |-> name, tp |-> tp, args |-> <<>>, hash |-> <<>>]
ScalarFunction(name, args, tp) == [k |-> "func", name |-> name, tp |-> tp, args |-> args, hash |-> <<>>]
NilExpr == [k |-> "nil", name |-> "", tp |-> "", args |-> <<>>, hash |-> <<>>]

IsScalarFunction(e) == e.k = "func"

GetType(e) == e.tp

\* the coarse evaluation-type class of a field type
EvalType(tp) ==
  CASE tp \in {"bigint", "int"} -> "ETInt"
    [] tp = "varchar" -> "ETString"
    [] OTHER -> "ETNone"

\* Expression.Equal: deep structural equality; columns by UniqueID, functions
\* by name, type and arguments, constants by value and type.  The cached hash
\* plays no part.
RECURSIVE Equal(_, _)
Equal(a, b) ==
  /\ a.k = b.k
  /\ a.name = b.name
  /\ (a.k = "col" \/ a.tp = b.tp)
  /\ Len(a.args) = Len(b.args)
  /\ \A i \in 1..Len(a.args) : Equal(a.args[i], b.args[i])

\* the hash of an expression computed from its structure, ignoring every cache
RECURSIVE StructHash(_)
RECURSIVE StructHashArgs(_, _)
StructHashArgs(args, i) ==
  IF i > Len(args) THEN <<>> ELSE StructHash(args[i]) \o StructHashArgs(args, i + 1)
StructHash(e) ==
  IF e.k = "func"
    THEN <<"(", e.name>> \o StructHashArgs(e.args, 1) \o <<e.tp, ")">>
    ELSE <<e.k, e.name, e.tp>>

\* Expression.HashCode / expression.ReHashCode.  HashCode of a scalar function
\* returns the cached hash when there is one and otherwise computes and caches
\* it; ReHashCode drops the cache of sf and recomputes it from HashCode of the
\* arguments (which caches the arguments' hashes on the way).
RECURSIVE ReHashCode(_)
RECURSIVE CachedArgs(_, _)
RECURSIVE HashArgs(_, _)
WithHashCode(e) ==
  IF e.k = "func" /\ e.hash = <<>> THEN ReHashCode(e) ELSE e
HashCode(e) ==
  IF e.k = "func" THEN WithHashCode(e).hash ELSE <<e.k, e.name, e.tp>>
CachedArgs(args, i) ==
  IF i > Len(args) THEN <<>> ELSE <<WithHashCode(args[i])>> \o CachedArgs(args, i + 1)
HashArgs(args, i) ==
  IF i > Len(args) THEN <<>> ELSE HashCode(args[i]) \o HashArgs(args, i + 1)
ReHashCode(sf) ==
  [sf EXCEPT !.args = CachedArgs(sf.args, 1),
             !.hash = <<"(", sf.name>> \o HashArgs(sf.args, 1) \o <<sf.tp, ")">>]

\* Schema.ColumnIndex: the position of col in the schema, by UniqueID, or -1
ColumnIndex(schema, col) ==
  IF \E i \in 1..Len(schema) : schema[i].name = col.name
    THEN CHOOSE i \in 1..Len(schema) :
           /\ schema[i].name = col.name
           /\ \A j \in 1..(i - 1) : schema[j].name # col.name
    ELSE -1

\* expression.ColInfo2Col: the index of the schema column whose ID is the
\* column info's ID, 0 when there is none (nil)
ColInfo2Col(schemaInfo, colInfo) ==
  IF \E i \in 1..Len(schemaInfo) : schemaInfo[i].ID = colInfo.ID
    THEN CHOOSE i \in 1..Len(schemaInfo) :
           /\ schemaInfo[i].ID = colInfo.ID
           /\ \A j \in 1..(i - 1) : schemaInfo[j].ID # colInfo.ID
    ELSE 0

\* ------------------------------------------------------- plan nodes
\* A plan node is a record
\*   [kind, schema, schemaInfo, tableInfo, possibleAccessPaths, exprs,
\*    aggArgs, children]
\* kind is one of "DataSource", "Selection", "Projection", "Sort",
\* "Aggregation", "Other".  schema is the sequence of output columns.
\* exprs holds Conditions (Selection), Exprs (Projection), the ByItems'
\* expressions (Sort) or GroupByItems (Aggregation); aggArgs[i] is
\* AggFuncs[i].Args.  For a DataSource, schemaInfo[i] carries the ID and the
\* VirtualExpr (object identity ptr and value) of schema[i], tableInfo is
\* tableInfo.Columns and possibleAccessPaths the candidate access paths.
PlanNode(kind, schema, exprs, aggArgs, children) ==
  [kind |-> kind, schema |-> schema, schemaInfo |-> <<>>, tableInfo |-> <<>>,
   possibleAccessPaths |-> <<>>, exprs |-> exprs, aggArgs |-> aggArgs,
   children |-> children]

DataSource(schema, schemaInfo, tableInfo, paths) ==
  [kind |-> "DataSource", schema |-> schema, schemaInfo |-> schemaInfo,
   tableInfo |-> tableInfo, possibleAccessPaths |-> paths, exprs |-> <<>>,
   aggArgs |-> <<>>, children |-> <<>>]

\* ------------------------------------------------------ ExprColumnMap
\* map[expression.Expression]*expression.Column.  The key is an interface
\* value holding a pointer, so two keys are the same key exactly when they are
\* the same expression object: the map is a function from object identities
\* to the entry's key expression and column.
EmptyMap == [p \in {} |-> [expr |-> NilExpr, col |-> NilExpr]]

MapPut(m, ptr, e, col) ==
  [p \in DOMAIN m \cup {ptr} |->
     IF p = ptr THEN [expr |-> e, col |-> col] ELSE m[p]]

\* --------------------------------------------- collectGenerateColumn
IsCandidateColInfo_storedToo(colInfo) == colInfo.generated

\* colInfo.IsGenerated() && !colInfo.GeneratedStored
IsCandidateColInfo(colInfo) == colInfo.generated /\ ~colInfo.GeneratedStored

\* one key column of an index path
collectIdxPart(ds, offset, m) ==
  LET colInfo == ds.tableInfo[offset]
      c == ColInfo2Col(ds.schemaInfo, colInfo)
  IN IF IsCandidateColInfo(colInfo)
       THEN IF c # 0 /\ GetType(ds.schema[c]) = GetType(ds.schemaInfo[c].VirtualExpr)
              THEN MapPut(m, ds.schemaInfo[c].ptr, ds.schemaInfo[c].VirtualExpr, ds.schema[c])
              ELSE m
       ELSE m

RECURSIVE collectIndexColumns(_, _, _, _)
collectIndexColumns(ds, cols, i, m) ==
  IF i > Len(cols) THEN m
  ELSE collectIndexColumns(ds, cols, i + 1, collectIdxPart(ds, cols[i], m))

RECURSIVE collectPaths(_, _, _)
collectPaths(ds, i, m) ==
  IF i > Len(ds.possibleAccessPaths) THEN m
  ELSE LET p == ds.possibleAccessPaths[i]
       IN collectPaths(ds, i + 1,
            IF p.IsTablePath THEN m ELSE collectIndexColumns(ds, p.IndexColumns, 1, m))

RECURSIVE collectGenerateColumn(_, _)
RECURSIVE collectChildren(_, _, _)
collectChildren(children, i, m) ==
  IF i > Len(children) THEN m
  ELSE collectChildren(children, i + 1, collectGenerateColumn(children[i], m))
collectGenerateColumn(node, m) ==
  LET m1 == collectChildren(node.children, 1, m)
  IN IF node.kind # "DataSource" THEN m1 ELSE collectPaths(node, 1, m1)

\* ------------------------------------------------ tryToSubstituteExpr
tryToSubstituteExpr_noSchemaCheck(expr, candidateExpr, tp, schema, col) ==
  IF Equal(expr, candidateExpr) /\ EvalType(GetType(candidateExpr)) = tp
    THEN col ELSE expr

tryToSubstituteExpr_noTypeCheck(expr, candidateExpr, tp, schema, col) ==
  IF Equal(expr, candidateExpr) /\ ColumnIndex(schema, col) # -1
    THEN col ELSE expr

\* the new content of the slot *expr
tryToSubstituteExpr(expr, candidateExpr, tp, schema, col) ==
  IF /\ Equal(expr, candidateExpr)
     /\ EvalType(GetType(candidateExpr)) = tp
     /\ ColumnIndex(schema, col) # -1
    THEN col ELSE expr

\* `for candidateExpr, column := range exprToColumn { tryToSubstituteExpr(..) }`:
\* the contents the slot can end with, over every iteration order of the
\* entries in todo
RECURSIVE rangeTryToSubstitute(_, _, _, _, _)
rangeTryToSubstitute(expr, tp, schema, m, todo) ==
  IF todo = {} THEN {expr}
  ELSE UNION { rangeTryToSubstitute(
                 tryToSubstituteExpr(expr, m[p].expr, tp, schema, m[p].col),
                 tp, schema, m, todo \ {p}) : p \in todo }

\* the inline check of the aggregation branch
inlineSubstitute(arg, candidateExpr, tp, schema, column) ==
  IF /\ Equal(arg, candidateExpr)
     /\ EvalType(GetType(candidateExpr)) = tp
     /\ ColumnIndex(schema, column) # -1
    THEN column ELSE arg

RECURSIVE rangeInlineSubstitute(_, _, _, _, _)
rangeInlineSubstitute(arg, tp, schema, m, todo) ==
  IF todo = {} THEN {arg}
  ELSE UNION { rangeInlineSubstitute(
                 inlineSubstitute(arg, m[p].expr, tp, schema, m[p].col),
                 tp, schema, m, todo \ {p}) : p \in todo }

\* ------------------------------------------------ substituteExpression
IsComparison(name) == name \in {"eq", "lt", "le", "gt", "ge"}

canSubstitute_always(args) == TRUE

\* all operands on the right-hand side of IN have the evaluation type of the
\* first of them
canSubstitute(args) ==
  \A i \in 2..Len(args) :
    EvalType(GetType(args[i])) = EvalType(GetType(args[2]))

deferredReHash_skipped(sf) == sf

\* the deferred expression.ReHashCode(sf, sctx)
deferredReHash(sf) == ReHashCode(sf)

RECURSIVE substituteExpression(_, _, _)

substituteOther_descend(sf, m, schema) ==
  IF Len(sf.args) = 1
    THEN { [sf EXCEPT !.args = <<a>>] : a \in substituteExpression(sf.args[1], m, schema) }
    ELSE {sf}

\* a function name the switch has no case for: nothing is done
substituteOther(sf, m, schema) == {sf}

\* case ast.EQ, ast.LT, ast.LE, ast.GT, ast.GE: the right operand first, with
\* the left operand's type, then the left operand with the type of the right
\* operand as it then is
substituteComparison(sf, m, schema) ==
  UNION { { [sf EXCEPT !.args = <<l, r>>] :
              l \in rangeTryToSubstitute(sf.args[1], EvalType(GetType(r)),
                                         schema, m, DOMAIN m) } :
          r \in rangeTryToSubstitute(sf.args[2], EvalType(GetType(sf.args[1])),
                                     schema, m, DOMAIN m) }

\* case ast.In
substituteIn(sf, m, schema) ==
  IF canSubstitute(sf.args)
    THEN { [sf EXCEPT !.args[1] = l] :
             l \in rangeTryToSubstitute(sf.args[1], EvalType(GetType(sf.args[2])),
                                        schema, m, DOMAIN m) }
    ELSE {sf}

\* case ast.Like
substituteLike(sf, m, schema) ==
  { [sf EXCEPT !.args[1] = l] :
      l \in rangeTryToSubstitute(sf.args[1], EvalType(GetType(sf.args[2])),
                                 schema, m, DOMAIN m) }

\* the conditions cond can be after the call, each with the hashes as the
\* deferred ReHashCode leaves them
substituteExpression(cond, m, schema) ==
  IF ~IsScalarFunction(cond) THEN {cond}
  ELSE LET switched ==
             CASE IsComparison(cond.name) -> substituteComparison(cond, m, schema)
               [] cond.name = "in" -> substituteIn(cond, m, schema)
               [] cond.name = "like" -> substituteLike(cond, m, schema)
               [] cond.name \in {"or", "and"} ->
                    { [cond EXCEPT !.args = <<a, b>>] :
                        a \in substituteExpression(cond.args[1], m, schema),
                        b \in substituteExpression(cond.args[2], m, schema) }
               [] cond.name = "not" ->
                    { [cond EXCEPT !.args = <<a>>] :
                        a \in substituteExpression(cond.args[1], m, schema) }
               [] OTHER -> substituteOther(cond, m, schema)
       IN { deferredReHash(sf) : sf \in switched }

\* ----------------------------------------------- gcSubstituter.substitute
\* all sequences whose i-th element is drawn from sets[i]
RECURSIVE ProductOfSets(_)
ProductOfSets(sets) ==
  IF sets = <<>> THEN {<<>>}
  ELSE { <<h>> \o t : h \in Head(sets), t \in ProductOfSets(Tail(sets)) }

\* case *LogicalSelection
substituteSelection(x, m) ==
  { [x EXCEPT !.exprs = cs] :
      cs \in ProductOfSets([i \in 1..Len(x.exprs) |->
                              substituteExpression(x.exprs[i], m, x.schema)]) }

\* case *LogicalProjection: the scope is the schema of the first child
substituteProjection(x, m) ==
  { [x EXCEPT !.exprs = es] :
      es \in ProductOfSets([i \in 1..Len(x.exprs) |->
              rangeTryToSubstitute(x.exprs[i], EvalType(GetType(x.exprs[i])),
                                   x.children[1].schema, m, DOMAIN m)]) }

\* case *LogicalSort
substituteSort(x, m) ==
  { [x EXCEPT !.exprs = es] :
      es \in ProductOfSets([i \in 1..Len(x.exprs) |->
              rangeTryToSubstitute(x.exprs[i], EvalType(GetType(x.exprs[i])),
                                   x.schema, m, DOMAIN m)]) }

\* case *LogicalAggregation
substituteAggregation(x, m) ==
  LET argsOf(f) ==
        ProductOfSets([i \in 1..Len(x.aggArgs[f]) |->
          rangeInlineSubstitute(x.aggArgs[f][i], EvalType(GetType(x.aggArgs[f][i])),
                                x.schema, m, DOMAIN m)])
  IN { [x EXCEPT !.aggArgs = as, !.exprs = gs] :
         as \in ProductOfSets([f \in 1..Len(x.aggArgs) |-> argsOf(f)]),
         gs \in ProductOfSets([i \in 1..Len(x.exprs) |->
                 rangeInlineSubstitute(x.exprs[i], EvalType(GetType(x.exprs[i])),
                                       x.schema, m, DOMAIN m)]) }

\* the plans the walk can leave, over every iteration order of every loop
RECURSIVE substitute(_, _)
substitute(node, m) ==
  LET here ==
        CASE node.kind = "Selection" -> substituteSelection(node, m)
          [] node.kind = "Projection" -> substituteProjection(node, m)
          [] node.kind = "Sort" -> substituteSort(node, m)
          [] node.kind = "Aggregation" -> substituteAggregation(node, m)
          [] OTHER -> {node}
      below == ProductOfSets([i \in 1..Len(node.children) |->
                                substitute(node.children[i], m)])
  IN { [x EXCEPT !.children = cs] : x \in here, cs \in below }

\* --------------------------------------------------- gcSubstituter.optimize
lenIsZero_never(m) == FALSE

\* len(exprToColumn) == 0
lenIsZero(m) == DOMAIN m = {}

\* ------------------------------------------------------- input plans
\* The plans optimize is applied to.  Table t has the columns a (bigint),
\* c1 generated as f(a) and c2 generated as f(a) again (another expression
\* object), as a reference to c1, or as s(a); table u has b and d1 generated
\* as f(b).  Offsets into tableInfo.Columns count from 1.
colA == Column("A", "bigint")
colB == Column("B", "bigint")
colD1 == Column("D1", "bigint")
fA == ScalarFunction("f", <<colA>>, "bigint")
fB == ScalarFunction("f", <<colB>>, "bigint")
sA == ScalarFunction("s", <<colA>>, "varchar")
gfA == ScalarFunction("g", <<fA>>, "bigint")
k5 == Constant("5", "bigint")
kx == Constant("x", "varchar")

TablePath == [IsTablePath |-> TRUE, IndexColumns |-> <<>>]
IndexPath(cols) == [IsTablePath |-> FALSE, IndexColumns |-> cols]

PathChoices ==
  { <<TablePath>>,
    <<TablePath, IndexPath(<<2>>)>>,
    <<TablePath, IndexPath(<<3>>), IndexPath(<<1>>)>>,
    <<TablePath, IndexPath(<<2>>), IndexPath(<<1, 3>>)>>,
    <<IndexPath(<<3, 2>>), IndexPath(<<2>>)>> }

\* the definitions of c2: the defining expression and the column's type
C2Choices(c1) ==
  { [def |-> fA, tp |-> "bigint"],
    [def |-> c1, tp |-> c1.tp],
    [def |-> sA, tp |-> "varchar"] }

SubSeqAt(s, keep) ==
  LET F[i \in 0..Len(s)] ==
        IF i = 0 THEN <<>>
        ELSE IF i \in keep THEN Append(F[i - 1], s[i]) ELSE F[i - 1]
  IN F[Len(s)]

TableT(c1, st1, v2, st2, keep, paths) ==
  DataSource(
    SubSeqAt(<<colA, c1, Column("C2", v2.tp)>>, keep),
    SubSeqAt(<<[ID |-> 1, ptr |-> "p0", VirtualExpr |-> NilExpr],
               [ID |-> 2, ptr |-> "p1", VirtualExpr |-> fA],
               [ID |-> 3, ptr |-> "p2", VirtualExpr |-> v2.def]>>, keep),
    <<[ID |-> 1, generated |-> FALSE, GeneratedStored |-> FALSE],
      [ID |-> 2, generated |-> TRUE, GeneratedStored |-> st1],
      [ID |-> 3, generated |-> TRUE, GeneratedStored |-> st2]>>,
    paths)

TableU ==
  DataSource(
    <<colB, colD1>>,
    <<[ID |-> 1, ptr |-> "p0", VirtualExpr |-> NilExpr],
      [ID |-> 2, ptr |-> "p3", VirtualExpr |-> fB]>>,
    <<[ID |-> 1, generated |-> FALSE, GeneratedStored |-> FALSE],
      [ID |-> 2, generated |-> TRUE, GeneratedStored |-> FALSE]>>,
    <<TablePath, IndexPath(<<2>>)>>)

C1Choices == { Column("C1", "bigint"), Column("C1", "int") }

TablesT(c1) ==
  { TableT(c1, st1, v2, FALSE, {1, 2, 3}, paths) :
      st1 \in BOOLEAN, v2 \in C2Choices(c1), paths \in PathChoices }
  \cup
  { TableT(c1, FALSE, v2, TRUE, {1, 2, 3}, paths) :
      v2 \in C2Choices(c1), paths \in PathChoices }
  \cup
  { TableT(c1, FALSE, v2, FALSE, {1, 3}, paths) :
      v2 \in C2Choices(c1), paths \in PathChoices }

Cmp(op, l, r) == ScalarFunction(op, <<l, r>>, "bigint")

Comparisons(c1) ==
  { Cmp(op, fA, k5) : op \in {"eq", "lt", "le", "gt", "ge"} }
  \cup
  { Cmp("eq", lr[1], lr[2]) :
      lr \in { <<k5, fA>>, <<fA, kx>>, <<sA, k5>>, <<sA, kx>>, <<fA, fA>>,
               <<gfA, k5>>, <<colA, k5>>, <<c1, k5>>, <<fA, c1>>, <<fB, k5>> } }

InLists == UNION { [1..n -> {k5, kx, fA}] : n \in 1..MaxInList }

InConds == { ScalarFunction("in", <<l>> \o list, "bigint") : l \in {fA, gfA}, list \in InLists }

LikeConds ==
  { ScalarFunction("like", lr, "bigint") :
      lr \in { <<sA, kx>>, <<fA, kx>>, <<fA, k5>>, <<kx, sA>> } }

LogicConds ==
  LET p0 == { Cmp("eq", fA, k5), Cmp("eq", fA, kx), Cmp("eq", gfA, k5) }
      Not(p) == ScalarFunction("not", <<p>>, "bigint")
      IsTrue(p) == ScalarFunction("istrue", <<p>>, "bigint")
  IN { ScalarFunction("and", <<p, q>>, "bigint") : p \in p0, q \in p0 }
     \cup { Not(p) : p \in p0 }
     \cup { ScalarFunction("or", <<Cmp("eq", fA, k5), Cmp("eq", sA, kx)>>, "bigint"),
            Not(Not(Cmp("eq", fA, k5))),
            IsTrue(Cmp("eq", fA, k5)),
            ScalarFunction("and", <<Not(Cmp("eq", fA, k5)), IsTrue(Cmp("eq", fA, k5))>>, "bigint"),
            Not(ScalarFunction("or", <<Cmp("le", fA, k5), Cmp("eq", k5, fA)>>, "bigint")),
            ScalarFunction("and", <<Cmp("eq", fA, k5), Cmp("eq", sA, k5)>>, "bigint"),
            Not(ScalarFunction("in", <<fA, k5, k5>>, "bigint")),
            ScalarFunction("or", <<ScalarFunction("in", <<fA, k5, kx>>, "bigint"),
                                   ScalarFunction("like", <<sA, kx>>, "bigint")>>, "bigint") }

Conds(c1) == Comparisons(c1) \cup InConds \cup LikeConds \cup LogicConds \cup {c1, k5}

\* the condition lists of an input Selection: one condition, with no hash
\* cached or with every hash cached, or two conditions
ConditionLists(c1) ==
  { <<c>> : c \in Conds(c1) }
  \cup { <<WithHashCode(c)>> : c \in Conds(c1) }
  \cup { <<Cmp("eq", fA, k5), WithHashCode(Cmp("eq", fA, kx))>> }

SlotExprs(c1) == { colA, fA, sA, gfA, c1, k5 }

Selection(conds, child, schema) == PlanNode("Selection", schema, conds, <<>>, <<child>>)

\* the input plans over table t as ds
PlansOver(c1, ds) ==
    { Selection(cs, ds, ds.schema) : cs \in ConditionLists(c1) }
    \cup
    \* the projection keeps a and f(a) only: c1 and c2 are not visible above it
    { Selection(<<c>>, PlanNode("Projection", <<colA, Column("P2", "bigint")>>, <<colA, fA>>,
                                <<>>, <<ds>>),
                <<colA, Column("P2", "bigint")>>) : c \in Conds(c1) }
    \cup
    { Selection(<<c>>, PlanNode("Other", ds.schema \o TableU.schema, <<>>, <<>>, <<ds, TableU>>),
                ds.schema \o TableU.schema) : c \in Conds(c1) }
    \cup
    { PlanNode("Projection", own, <<e, k5>>, <<>>, <<ds>>) :
        e \in SlotExprs(c1), own \in { <<Column("P1", "bigint"), Column("P2", "bigint")>>,
                                        <<Column("P1", "bigint"), c1>> } }
    \cup
    { PlanNode("Sort", ds.schema, <<e>>, <<>>, <<ds>>) : e \in SlotExprs(c1) }
    \cup
    { PlanNode("Other", ds.schema, <<>>, <<>>,
               <<PlanNode("Sort", ds.schema, <<e, colA>>, <<>>, <<ds>>)>>) : e \in SlotExprs(c1) }
    \cup
    { PlanNode("Aggregation", own, <<g>>, << <<e>>, <<fA, k5>> >>, <<ds>>) :
        e \in SlotExprs(c1), g \in {fA, colA, c1},
        own \in { <<Column("G1", "bigint")>> \o ds.schema, <<Column("G1", "bigint")>> } }

\* ------------------------------------------------------- the rule
Init ==
  /\ \E c1 \in C1Choices : \E ds \in TablesT(c1) : lp \in PlansOver(c1, ds)
  /\ input = lp
  /\ exprToColumn = EmptyMap
  /\ pc = "ready"
  /\ nrun = 0
  /\ results = <<>>
  /\ err = "unset"

\* exprToColumn := make(ExprColumnMap); collectGenerateColumn(lp, exprToColumn)
Collect ==
  /\ pc \in {"ready", "done"}
  /\ nrun < MaxRuns
  /\ input' = lp
  /\ exprToColumn' = collectGenerateColumn(lp, EmptyMap)
  /\ pc' = "collected"
  /\ err' = "unset"
  /\ UNCHANGED <<lp, nrun, results>>

\* if len(exprToColumn) == 0 { return lp, nil }
ReturnUnchanged ==
  /\ pc = "collected"
  /\ lenIsZero(exprToColumn)
  /\ pc' = "done"
  /\ nrun' = nrun + 1
  /\ results' = Append(results, lp)
  /\ err' = "nil"
  /\ UNCHANGED <<lp, input, exprToColumn>>

\* return gc.substitute(ctx, lp, exprToColumn), nil
Substitute ==
  /\ pc = "collected"
  /\ ~lenIsZero(exprToColumn)
  /\ lp' \in substitute(lp, exprToColumn)
  /\ pc' = "done"
  /\ nrun' = nrun + 1
  /\ results' = Append(results, lp')
  /\ err' = "nil"
  /\ UNCHANGED <<input, exprToColumn>>

Next == Collect \/ ReturnUnchanged \/ Substitute

Spec == Init /\ [][Next]_vars

\* ------------------------------------------------- reading a plan pair
\* an expression with every cached hash dropped
RECURSIVE StripHash(_)
StripHash(e) ==
  [e EXCEPT !.hash = <<>>,
            !.args = IF Len(e.args) = 0 THEN <<>>
                     ELSE [i \in 1..Len(e.args) |-> StripHash(e.args[i])]]

StripSeq(es) == IF Len(es) = 0 THEN <<>> ELSE [i \in 1..Len(es) |-> StripHash(es[i])]

RECURSIVE StripPlan(_)
StripPlan(node) ==
  [node EXCEPT !.exprs = StripSeq(node.exprs),
               !.aggArgs = IF Len(node.aggArgs) = 0 THEN <<>>
                           ELSE [f \in 1..Len(node.aggArgs) |-> StripSeq(node.aggArgs[f])],
               !.children = IF Len(node.children) = 0 THEN <<>>
                            ELSE [i \in 1..Len(node.children) |-> StripPlan(node.children[i])]]

SameExpr(a, b) == StripHash(a) = StripHash(b)

\* the nodes of a plan
RECURSIVE Nodes(_)
Nodes(node) ==
  {node} \cup UNION { Nodes(node.children[i]) : i \in 1..Len(node.children) }

\* the pairs <<node before, node after>> of two plans of the same shape
RECURSIVE NodePairs(_, _)
NodePairs(a, b) ==
  {<<a, b>>} \cup
  UNION { NodePairs(a.children[i], b.children[i]) :
            i \in 1..Len(a.children) \cap 1..Len(b.children) }

\* the expression fields of a node, as one sequence
RECURSIVE Flatten(_)
Flatten(ss) == IF ss = <<>> THEN <<>> ELSE Head(ss) \o Flatten(Tail(ss))
Fields(node) == node.exprs \o Flatten(node.aggArgs)

\* the topmost positions at which b differs from a, as pairs <<before, after>>
RECURSIVE ChangedPairs(_, _)
ChangedPairs(a, b) ==
  IF SameExpr(a, b) THEN {}
  ELSE IF a.k = "func" /\ b.k = "func" /\ a.name = b.name /\ Len(a.args) = Len(b.args)
    THEN UNION { ChangedPairs(a.args[i], b.args[i]) : i \in 1..Len(a.args) }
    ELSE {<<a, b>>}

ChangedSlots(a, b) ==
  IF Len(Fields(a)) # Len(Fields(b)) THEN {<<NilExpr, NilExpr>>}
  ELSE UNION { ChangedPairs(Fields(a)[i], Fields(b)[i]) : i \in 1..Len(Fields(a)) }

\* the schema a replacement column of the node must be visible in
ScopeSchema(node) ==
  IF node.kind = "Projection" THEN node.children[1].schema ELSE node.schema

Visible(col, schema) == \E i \in 1..Len(schema) : schema[i].name = col.name

\* the pairs <<before, after>> of the scalar functions the walk of a condition
\* reaches: the condition itself and, below AND, OR and NOT, their operands
RECURSIVE VisitedPairs(_, _)
VisitedPairs(a, b) ==
  IF a.k # "func" \/ b.k # "func" THEN {}
  ELSE {<<a, b>>} \cup
       IF a.name \in {"and", "or", "not"} /\ b.name = a.name /\ Len(b.args) = Len(a.args)
         THEN UNION { VisitedPairs(a.args[i], b.args[i]) : i \in 1..Len(a.args) }
         ELSE {}

\* the visited function pairs of all conditions of all Selection nodes, each
\* with the schema of its node
ConditionPairs(before, after) ==
  UNION { UNION { { <<v[1], v[2], n[1].schema>> : v \in VisitedPairs(n[1].exprs[i], n[2].exprs[i]) } :
                    i \in 1..Len(n[1].exprs) \cap 1..Len(n[2].exprs) } :
          n \in { x \in NodePairs(before, after) : x[1].kind = "Selection" } }

MapColumns == { exprToColumn[p].col : p \in DOMAIN exprToColumn }

\* some collected candidate deep-equals e and has evaluation type tp
Matches(e, tp) ==
  \E p \in DOMAIN exprToColumn :
    /\ Equal(e, exprToColumn[p].expr)
    /\ EvalType(GetType(exprToColumn[p].expr)) = tp

\* ... and its column is visible in schema
MatchesVisible(e, tp, schema) ==
  \E p \in DOMAIN exprToColumn :
    /\ Equal(e, exprToColumn[p].expr)
    /\ EvalType(GetType(exprToColumn[p].expr)) = tp
    /\ Visible(exprToColumn[p].col, schema)

Walked == pc = "done" /\ DOMAIN exprToColumn # {}

\* ------------------------------------------------------------ claims

\* C1: whenever the rule replaces an expression slot by a column C, C is in
\* the substitution scope schema of the slot: the node's own schema for a
\* filter operand, a sort key, an aggregate argument or a group-by key, the
\* first child's schema for a projection expression; otherwise the slot is
\* left as it was.
C1_ScopeSchema ==
  pc = "done" =>
    \A n \in NodePairs(input, lp) :
      /\ n[2].kind = n[1].kind
      /\ n[2].schema = n[1].schema
      /\ \A ch \in ChangedSlots(n[1], n[2]) :
           /\ ch[2].k = "col"
           /\ ch[2] \in MapColumns
           /\ Visible(ch[2], ScopeSchema(n[1]))

\* a projection expression was replaced by a column of the child's schema that
\* is not in the projection's own schema, while the filter above it, where the
\* column is not visible, kept an operand that matches the same candidate
C1_Witness ==
  /\ Walked
  /\ lp.kind = "Selection"
  /\ lp.children[1].kind = "Projection"
  /\ \E ch \in ChangedSlots(input.children[1], lp.children[1]) :
       /\ ~Visible(ch[2], lp.children[1].schema)
       /\ Visible(ch[2], lp.children[1].children[1].schema)
       /\ \E v \in ConditionPairs(input, lp) :
            /\ IsComparison(v[1].name)
            /\ Equal(v[1].args[1], ch[1])
            /\ Matches(v[1].args[1], EvalType(GetType(v[1].args[2])))
            /\ SameExpr(v[1], v[2])

\* C2: in a comparison of a filter condition an operand is replaced only when
\* a candidate deep-equal to it has the evaluation type of the other operand;
\* with a string operand and a numeric other operand nothing is replaced.
C2_TypeGate ==
  pc = "done" =>
    \A v \in ConditionPairs(input, lp) :
      IsComparison(v[1].name) =>
        /\ ~SameExpr(v[1].args[2], v[2].args[2]) =>
             /\ Matches(v[1].args[2], EvalType(GetType(v[1].args[1])))
             /\ v[2].args[2] \in MapColumns
             /\ EvalType(GetType(v[2].args[2])) = EvalType(GetType(v[1].args[1]))
        /\ ~SameExpr(v[1].args[1], v[2].args[1]) =>
             /\ Matches(v[1].args[1], EvalType(GetType(v[2].args[2])))
             /\ v[2].args[1] \in MapColumns
             /\ EvalType(GetType(v[2].args[1])) = EvalType(GetType(v[2].args[2]))

\* one comparison had its operand replaced, and another, whose string operand
\* deep-equals the defining expression of a visible collected column and whose
\* other operand is numeric, was left alone
C2_Witness ==
  /\ Walked
  /\ \E v \in ConditionPairs(input, lp), w \in ConditionPairs(input, lp) :
       /\ IsComparison(v[1].name)
       /\ ~SameExpr(v[1].args[1], v[2].args[1])
       /\ IsComparison(w[1].name)
       /\ EvalType(GetType(w[1].args[1])) = "ETString"
       /\ EvalType(GetType(w[1].args[2])) = "ETInt"
       /\ MatchesVisible(w[1].args[1], "ETString", w[3])
       /\ SameExpr(w[1], w[2])

\* the operands after the first all have one evaluation type
UniformList(args) ==
  \A i \in 2..Len(args), j \in 2..Len(args) :
    EvalType(GetType(args[i])) = EvalType(GetType(args[j]))

\* C3: for IN in a filter condition the list operands are never replaced; with
\* a list of mixed evaluation types nothing is replaced; with a uniform list
\* the first operand is replaced exactly when a visible candidate of the
\* list's evaluation type deep-equals it.
C3_InList ==
  pc = "done" =>
    \A v \in ConditionPairs(input, lp) :
      v[1].name = "in" =>
        /\ Len(v[2].args) = Len(v[1].args)
        /\ \A i \in 2..Len(v[1].args) : SameExpr(v[1].args[i], v[2].args[i])
        /\ ~UniformList(v[1].args) => SameExpr(v[1].args[1], v[2].args[1])
        /\ ~SameExpr(v[1].args[1], v[2].args[1]) =>
             /\ MatchesVisible(v[1].args[1], EvalType(GetType(v[1].args[2])), v[3])
             /\ v[2].args[1] \in MapColumns
        /\ (Walked /\ UniformList(v[1].args)
              /\ MatchesVisible(v[1].args[1], EvalType(GetType(v[1].args[2])), v[3]))
             => v[2].args[1] \in MapColumns

\* f(a) IN (5, 'x') was left alone next to a replaced operand, although f(a)
\* matches a visible candidate of the first list operand's type
C3_Witness ==
  /\ Walked
  /\ \E v \in ConditionPairs(input, lp) :
       /\ v[1].name = "in"
       /\ ~UniformList(v[1].args)
       /\ MatchesVisible(v[1].args[1], EvalType(GetType(v[1].args[2])), v[3])
       /\ SameExpr(v[1], v[2])
  /\ \E v \in ConditionPairs(input, lp) : ~SameExpr(v[1], v[2])

\* a was changed only by the replacement of the whole operand by a column
OperandFrame(a, b) == SameExpr(a, b) \/ (b.k = "col" /\ b \in MapColumns)

RECURSIVE ConditionFrame(_, _)
ConditionFrame(a, b) ==
  IF a.k # "func" THEN b = a
  ELSE /\ b.k = "func" /\ b.name = a.name /\ b.tp = a.tp /\ Len(b.args) = Len(a.args)
       /\ CASE a.name \in {"and", "or", "not"} ->
                 \A i \in 1..Len(a.args) : ConditionFrame(a.args[i], b.args[i])
            [] IsComparison(a.name) ->
                 \A i \in 1..Len(a.args) : OperandFrame(a.args[i], b.args[i])
            [] a.name \in {"in", "like"} ->
                 /\ OperandFrame(a.args[1], b.args[1])
                 /\ \A i \in 2..Len(a.args) : SameExpr(a.args[i], b.args[i])
            [] OTHER -> \A i \in 1..Len(a.args) : SameExpr(a.args[i], b.args[i])

\* C4: within a filter condition only direct operands of comparisons, IN and
\* LIKE reached from the root through AND, OR and NOT change; the arguments of
\* any other function are left as they were.
C4_Frame ==
  pc = "done" =>
    \A n \in NodePairs(input, lp) :
      n[1].kind = "Selection" =>
        /\ Len(n[2].exprs) = Len(n[1].exprs)
        /\ \A i \in 1..Len(n[1].exprs) : ConditionFrame(n[1].exprs[i], n[2].exprs[i])

\* e occurs strictly inside x
RECURSIVE OccursIn(_, _)
OccursIn(e, x) ==
  \E i \in 1..Len(x.args) : Equal(e, x.args[i]) \/ OccursIn(e, x.args[i])

\* under an AND one comparison was rewritten while g(f(a)) = 5 kept its f(a),
\* which matches a visible candidate
C4_Witness ==
  /\ Walked
  /\ \E v \in ConditionPairs(input, lp), w \in ConditionPairs(input, lp) :
       /\ v[1].name = "and"
       /\ ~SameExpr(v[1], v[2])
       /\ IsComparison(w[1].name)
       /\ w[1].args[1].k = "func"
       /\ \E p \in DOMAIN exprToColumn :
            /\ OccursIn(exprToColumn[p].expr, w[1].args[1])
            /\ Visible(exprToColumn[p].col, w[3])
       /\ SameExpr(w[1], w[2])

\* the data-source nodes of the plan
DataSources == { n \in Nodes(lp) : n.kind = "DataSource" }

\* col is the schema column of ds for a key column of an index path of ds
\* whose column info satisfies Ok
IndexedWith(ds, col, Ok(_)) ==
  \E i \in 1..Len(ds.possibleAccessPaths) :
    LET path == ds.possibleAccessPaths[i]
    IN /\ ~path.IsTablePath
       /\ \E k \in 1..Len(path.IndexColumns) :
            LET colInfo == ds.tableInfo[path.IndexColumns[k]]
            IN /\ Ok(colInfo)
               /\ \E c \in 1..Len(ds.schema) :
                    /\ ds.schemaInfo[c].ID = colInfo.ID
                    /\ ds.schema[c] = col

IsVirtualGenerated(colInfo) == colInfo.generated /\ ~colInfo.GeneratedStored
IsStoredGenerated(colInfo) == colInfo.generated /\ colInfo.GeneratedStored

\* the schema columns of the plan's data sources that belong to a stored
\* generated column
StoredColumns ==
  UNION { { ds.schema[c] : c \in
              { c \in 1..Len(ds.schema) :
                  \E o \in 1..Len(ds.tableInfo) :
                    /\ ds.tableInfo[o].ID = ds.schemaInfo[c].ID
                    /\ IsStoredGenerated(ds.tableInfo[o]) } } :
          ds \in DataSources }

\* C5: every entry of the collected map is a generated, not stored column that
\* is a key column of an index access path of a data source, resolves in that
\* data source's schema and has the type of its defining expression, which is
\* the entry's key; a stored generated column is in no entry and no slot is
\* replaced by one.
C5_Collected ==
  pc \in {"collected", "done"} =>
    /\ \A p \in DOMAIN exprToColumn :
         \E ds \in DataSources :
           /\ IndexedWith(ds, exprToColumn[p].col, IsVirtualGenerated)
           /\ \E c \in 1..Len(ds.schema) :
                /\ ds.schema[c] = exprToColumn[p].col
                /\ ds.schemaInfo[c].ptr = p
                /\ ds.schemaInfo[c].VirtualExpr = exprToColumn[p].expr
                /\ GetType(ds.schema[c]) = GetType(exprToColumn[p].expr)
    /\ MapColumns \cap StoredColumns = {}
    /\ pc = "done" =>
         \A n \in NodePairs(input, lp) :
           \A ch \in ChangedSlots(n[1], n[2]) : ch[2] \notin StoredColumns

\* the walk ran with a candidate collected, while an indexed stored generated
\* column whose defining expression occurs in a slot stayed out of the map and
\* the slot was left alone
C5_Witness ==
  /\ Walked
  /\ \E ds \in DataSources : \E c \in 1..Len(ds.schema) :
       /\ ds.schema[c] \in StoredColumns
       /\ IndexedWith(ds, ds.schema[c], IsStoredGenerated)
       /\ GetType(ds.schema[c]) = GetType(ds.schemaInfo[c].VirtualExpr)
       /\ ds.schema[c] \notin MapColumns
       /\ \E n \in NodePairs(input, lp) :
            /\ n[1].kind = "Sort"
            /\ Equal(n[1].exprs[1], ds.schemaInfo[c].VirtualExpr)
            /\ Visible(ds.schema[c], n[1].schema)
            /\ n[2] = n[1]

\* C6 (as claimed): applying optimize twice leaves the expression slots, cached
\* hashes aside, as applying it once does.
C6_Idempotent ==
  Len(results) >= 2 => StripPlan(results[2]) = StripPlan(results[1])

\* C7: when the collected map is empty, optimize returns the plan with a nil
\* error and nodes, children, schemas, expression slots and cached hashes are
\* as they were.
C7_ShortCircuit ==
  (pc = "done" /\ DOMAIN exprToColumn = {}) =>
    /\ lp = input
    /\ results[Len(results)] = input
    /\ err = "nil"

\* optimize returned on a plan without candidates whose filter holds a
\* comparison with no hash cached
C7_Witness ==
  /\ pc = "done"
  /\ DOMAIN exprToColumn = {}
  /\ lp.kind = "Selection"
  /\ lp.exprs[1].k = "func"
  /\ lp.exprs[1].hash = <<>>
  /\ IsComparison(lp.exprs[1].name)

\* the scalar functions in e, at every depth
RECURSIVE Functions(_)
Functions(e) ==
  (IF e.k = "func" THEN {e} ELSE {}) \cup
  UNION { Functions(e.args[i]) : i \in 1..Len(e.args) }

FilterFunctions(plan) ==
  UNION { UNION { Functions(n.exprs[i]) : i \in 1..Len(n.exprs) } :
          n \in { x \in Nodes(plan) : x.kind = "Selection" } }

\* C8: when the rule returns, no scalar function of a filter condition holds a
\* cached hash that differs from the hash of its current arguments, and after
\* the walk every one of them holds that hash, whether or not an argument
\* changed.
C8_HashFresh ==
  pc = "done" =>
    \A sf \in FilterFunctions(lp) :
      /\ sf.hash # <<>> => sf.hash = StructHash(sf)
      /\ Walked => sf.hash = StructHash(sf)

\* a condition under AND, OR or NOT that came with its hashes cached had an
\* operand replaced
C8_Witness ==
  /\ Walked
  /\ \E v \in ConditionPairs(input, lp) :
       /\ v[1].name \in {"and", "or", "not"}
       /\ v[1].hash # <<>>
       /\ ~SameExpr(v[1], v[2])
       /\ v[2].hash # v[1].hash

\* C9 (as claimed): collected columns whose defining expressions are deep-equal
\* share one entry of the map.
C9_KeysCollapse ==
  pc \in {"collected", "done"} =>
    \A p \in DOMAIN exprToColumn, q \in DOMAIN exprToColumn :
      Equal(exprToColumn[p].expr, exprToColumn[q].expr) => p = q

\* C10 (as claimed): the expression slots after optimize do not depend on the
\* order in which the loops iterate over the map.
C10_OrderIndependent ==
  Walked =>
    \A other \in substitute(input, exprToColumn) : StripPlan(other) = StripPlan(lp)

====
